---- MODULE Spec2Model ----
(***************************************************************************)
(* Duplicate review session of the photo library front end                 *)
(* (frontend/src/components/DuplicateReviewModal.tsx) together with the    *)
(* part of the Duplicates page that mounts it and receives its callbacks.  *)
(*                                                                         *)
(* The component is a React 18 function component: every handler is a      *)
(* closure over the state of the render that created it.  Buttons carry    *)
(* the handlers of the latest render; the keydown handler is re-registered *)
(* only when rightId, keeperId, queue or index change, so between two such *)
(* changes it keeps the animType / isLoading values of an older render.    *)
(* Timer callbacks and the code after an await keep the queue, index and   *)
(* keeperId of the render in which the handler was invoked.                *)
(*                                                                         *)
(* index is kept 0-based as in the source; queue[index] is queue[index+1]  *)
(* here.  The value 0 stands for JavaScript's undefined / falsy id.        *)
(* Rendering-only state (animKey, keeperPulse) is left out.                *)
(*                                                                         *)
(* The Duplicates page keeps the list returned by the clusters query, the  *)
(* index of the cluster under review and ephemeralRemoved, its record of   *)
(* the images merged or ignored in this visit, keyed by cluster index.     *)
(* The cluster builder, the ignore ledger and the job tracker run on the   *)
(* server; their behaviour is taken from the design description.           *)
(***************************************************************************)
EXTENDS Integers, Sequences, FiniteSets, TLC

\* ---------------------------------------------------------------- bounds
MaxImages == 3      \* largest cluster handed to a review session
MaxPending == 2     \* API calls in flight plus timers pending at one time
MaxGestures == 4    \* key presses and button clicks during one session
MaxExternal == 1    \* images deleted by somebody else during the session
MaxClusters == 1    \* clusters listed on the Duplicates page
MaxLibrary == 3     \* images in the library behind the clusters query
HashBits == 2       \* width of a perceptual hash
MaxThreshold == 1   \* largest Hamming distance asked for
MaxReports == 2     \* calls of review sessions answered in the library model
MaxJobs == 2        \* jobs known to the job tracker
MaxGroups == 1      \* groups returned by a scan for exact duplicates
MaxBrowse == 3      \* images listed on the Browse page

Ids == 1..MaxImages
LibIds == 1..MaxLibrary
Widths == {0, 1, 2}
Heights == {1, 2}
Times == {1, 2}

\* ------------------------------------------------------------ variables
VARIABLES
    images,       \* cluster.images: the cluster as returned by the server
    opened,       \* the Review button has been clicked for this cluster
    mounted,      \* the modal is mounted (reviewClusterIdx !== null)
    keeperId, queue, index, processed, total, isClosing, animType,
    kbAnim, kbMergeLoading, kbIgnoreLoading,
                  \* animType / isLoading as captured by the keydown handler
    calls,        \* API calls in flight, in the order they were issued
    timers,       \* pending setTimeout callbacks, in creation order
    gone,         \* server: images that no longer exist
    ledger,       \* server: ignored pairs (canonical order)
    external,     \* number of deletions made elsewhere
    gestures,     \* key presses and button clicks accepted so far
    okCalls,      \* merge / ignore calls that succeeded so far
    clean,        \* every call settled so far was a merge / ignore that succeeded
    handled,      \* outcomes of the calls whose removal has been applied
    reported,     \* payloads passed to onProcessed
    onDoneCount,  \* number of times onDone was called
    clusters,     \* page: data of the clusters query, each cluster as its ids
    reviewClusterIdx, reviewCluster, ephemeralRemoved,
    phash,        \* server: perceptual hash of each image (NoHash until computed)
    threshold, prefixBits,
    crossBuckets, \* server: the builder also compares across buckets
    jobs,         \* server: status of each job
    jobsData,     \* Jobs page: data of the jobs query
    exactGroups, selectedExact,
    exactRequests,
                  \* the mergeExactDuplicates requests sent by the handler that ran last
    bulkMode, selectedImages, lastSelectedIndex, selectedImageId

vars == <<images, opened, mounted, keeperId, queue, index, processed, total,
          isClosing, animType, kbAnim, kbMergeLoading, kbIgnoreLoading,
          calls, timers, gone, ledger, external, gestures, okCalls, clean,
          handled, reported, onDoneCount, clusters, reviewClusterIdx,
          reviewCluster, ephemeralRemoved, phash, threshold, prefixBits,
          crossBuckets, jobs, jobsData, exactGroups, selectedExact,
          exactRequests, bulkMode, selectedImages, lastSelectedIndex,
          selectedImageId>>

session == <<keeperId, queue, index, processed, total, isClosing, animType>>
keyboard == <<kbAnim, kbMergeLoading, kbIgnoreLoading>>
server == <<gone, ledger, external>>
history == <<okCalls, clean, reported>>
review == <<reviewClusterIdx, reviewCluster>>
library == <<phash, threshold, prefixBits, crossBuckets>>
tracker == <<jobs, jobsData>>
exact == <<exactGroups, selectedExact, exactRequests>>
browse == <<bulkMode, selectedImages, lastSelectedIndex, selectedImageId>>

\* ------------------------------------------------------ sequence helpers
Min(a, b) == IF a < b THEN a ELSE b
Max(a, b) == IF a > b THEN a ELSE b

\* queue.filter((_, idx) => idx !== i0)
RemoveAt(s, i0) ==
    SubSeq(s, 1, Min(i0, Len(s))) \o SubSeq(s, i0 + 2, Len(s))

\* q.filter((id) => id !== x)
FilterOut(s, x) == SelectSeq(s, LAMBDA y : y # x)

\* rest.splice(i0, 0, x)
InsertAt(s, i0, x) ==
    LET k == Min(i0, Len(s))
    IN  SubSeq(s, 1, k) \o <<x>> \o SubSeq(s, k + 1, Len(s))

\* queue[index], undefined (0) when out of range
RightOf(q, i0) == IF i0 + 1 \in DOMAIN q THEN q[i0 + 1] ELSE 0

rightId == RightOf(queue, index)

Range(s) == {s[k] : k \in DOMAIN s}

\* ------------------------------------------------ default keeper (pure)
NullAcc == [id |-> 0, area |-> 0, null |-> TRUE]

Area(im) == im.width * im.height

RECURSIVE KeeperReduce(_, _, _)
KeeperReduce(imgs, k, acc) ==
    IF k > Len(imgs) THEN acc
    ELSE KeeperReduce(imgs, k + 1,
            IF acc.null \/ Area(imgs[k]) > acc.area
            THEN [id |-> imgs[k].id, area |-> Area(imgs[k]), null |-> FALSE]
            ELSE acc)

selectDefaultKeeper(imgs) ==
    LET best == KeeperReduce(imgs, 1, NullAcc)
    IN  IF ~best.null /\ best.id # 0 THEN best.id
        ELSE IF Len(imgs) > 0 THEN imgs[1].id ELSE 0

\* cluster.images.map(i => i.id).filter(id => id !== defaultKeeper)
InitialQueue(imgs) ==
    FilterOut([k \in DOMAIN imgs |-> imgs[k].id], selectDefaultKeeper(imgs))

\* ----------------------------------------------------------- clusters
ImageRecs == [id : Ids, width : Widths, height : Heights, createdAt : Times]

DistinctIds(s) == \A a, b \in DOMAIN s : a # b => s[a].id # s[b].id

\* every cluster of 2..MaxImages distinct images
AllClusters ==
    UNION {{s \in [1..n -> ImageRecs] : DistinctIds(s)} : n \in 2..MaxImages}

Img(i, w, h, t) == [id |-> i, width |-> w, height |-> h, createdAt |-> t]

\* clusters reviewed in the session model: ids 1..n listed in ascending
\* order, the first and the last of equal (largest) area, the last newer
SessionClusters ==
    {[k \in 1..n |-> IF k = 1 THEN Img(1, 2, 2, 1)
                     ELSE IF k = n THEN Img(n, 2, 2, 2)
                     ELSE Img(k, 1, 1, 1)] : n \in 2..MaxImages}

\* ------------------------------------------------------------ mutations
mergeLoading == \E k \in DOMAIN calls : calls[k].kind = "merge" /\ calls[k].cur
ignoreLoading == \E k \in DOMAIN calls : calls[k].kind = "ignore" /\ calls[k].cur

Pending == Len(calls) + Len(timers)

CloseDelay == 180
AnimDuration == 260

Delay(t) == IF t.kind = "close" THEN CloseDelay ELSE AnimDuration

\* setTimeout callbacks run in order of expiry: a timer cannot run before an
\* earlier-created timer whose delay is not longer than its own
MayFire(i) == \A j \in 1..(i - 1) : Delay(timers[j]) > Delay(timers[i])

CloseTimer == [kind |-> "close", q |-> <<>>, idx |-> 0, rid |-> 0, res |-> "ok"]

Drop(s, i) == SubSeq(s, 1, i - 1) \o SubSeq(s, i + 1, Len(s))

Pair(a, b) == <<Min(a, b), Max(a, b)>>

\* the keydown effect re-runs (deps [rightId, keeperId, queue, index]) and
\* registers the handler of the new render
KbRefresh ==
    /\ kbAnim' = animType'
    /\ kbMergeLoading' = mergeLoading'
    /\ kbIgnoreLoading' = ignoreLoading'

\* ------------------------------------------------------------- server
\* merge-delete-pair / ignore as the workflow sees them: a request naming an
\* image that no longer exists is answered "not found"; any request may fail
Outcomes(c) ==
    IF c.kind = "ignoreAll"
    THEN IF c.keeper \in gone \/ Range(c.q) \cap gone # {}
         THEN {"notfound", "fail"} ELSE {"ok", "fail"}
    ELSE IF c.keeper \in gone \/ c.dup \in gone
         THEN {"notfound", "fail"} ELSE {"ok", "fail"}

\* ------------------------------------------------------ Duplicates page
\* reviewClusterIdx === null
NullIdx == 0 - 1

ClusterIdxs == 0..(MaxClusters - 1)

\* prev[idx] || { merged: new Set(), ignored: new Set() }
NoneRemoved == [merged |-> {}, ignored |-> {}]

\* c.images.map(i => i.id)
IdsOf(imgs) == [k \in DOMAIN imgs |-> imgs[k].id]

\* the onProcessed handler of the page, applied to the payloads of one call
RecordRemoved(prev, idx, payloads) ==
    IF idx \notin DOMAIN prev THEN prev
    ELSE [prev EXCEPT ![idx] =
            [merged |-> @.merged \cup
                {p.duplicateId : p \in {q \in payloads : q.action = "merged"}},
             ignored |-> @.ignored \cup
                {p.duplicateId : p \in {q \in payloads : q.action # "merged"}}]]

\* the count with the ignored images left out
removedCountMergedOnly(idx) == Cardinality(ephemeralRemoved[idx].merged)

removedCount(idx) ==
    Cardinality(ephemeralRemoved[idx].merged) + Cardinality(ephemeralRemoved[idx].ignored)

visibleCount(idx) == Max(0, Len(clusters[idx + 1]) - removedCount(idx))

\* the cluster at idx is rendered (the map callback does not return null)
Rendered(idx) == idx + 1 \in DOMAIN clusters /\ ~(visibleCount(idx) <= 1)

\* the thumbnails rendered for the cluster at idx
ShownImages(idx) ==
    IF Rendered(idx)
    THEN {id \in Range(clusters[idx + 1]) :
            ~(id \in ephemeralRemoved[idx].merged \/ id \in ephemeralRemoved[idx].ignored)}
    ELSE {}

\* ------------------------------------------------- server state at rest
NoHash == 0 - 1

JobIds == 1..MaxJobs

\* the library behind the reviewed cluster: its members have equal hashes
LibraryAtRest ==
    /\ phash = [i \in LibIds |-> IF i \in Range(IdsOf(images)) THEN 0 ELSE NoHash]
    /\ threshold = 0 /\ prefixBits = 1 /\ crossBuckets = FALSE

TrackerAtRest ==
    /\ jobs = [j \in JobIds |-> "none"]
    /\ jobsData = [j \in JobIds |-> "none"]

\* ------------------------------------------------ other pages at rest
GroupKeys == 1..MaxGroups

\* selectedExact[g.key] || { keepId: 0, removeIds: new Set() }
NoSelection == [keepId |-> 0, removeIds |-> {}]

\* useState initial values of the exact-duplicates panel
ExactAtRest ==
    /\ exactGroups = <<>>
    /\ selectedExact = [k \in GroupKeys |-> NoSelection]
    /\ exactRequests = <<>>

\* useState initial values of the Browse page
BrowseAtRest ==
    /\ bulkMode = FALSE /\ selectedImages = {}
    /\ lastSelectedIndex = NullIdx /\ selectedImageId = 0

\* ---------------------------------------------------------------- Init
Init ==
    /\ images \in SessionClusters
    /\ clusters = <<IdsOf(images)>>
    /\ reviewClusterIdx = NullIdx /\ reviewCluster = <<>>
    /\ ephemeralRemoved = [idx \in ClusterIdxs |-> NoneRemoved]
    /\ LibraryAtRest /\ TrackerAtRest /\ ExactAtRest /\ BrowseAtRest
    /\ opened = FALSE /\ mounted = FALSE
    /\ keeperId = 0 /\ queue = <<>> /\ index = 0 /\ processed = 0
    /\ total = 0 /\ isClosing = FALSE /\ animType = "none"
    /\ kbAnim = "none" /\ kbMergeLoading = FALSE /\ kbIgnoreLoading = FALSE
    /\ calls = <<>> /\ timers = <<>>
    /\ gone = {} /\ ledger = {} /\ external = 0
    /\ gestures = 0 /\ okCalls = 0 /\ clean = TRUE /\ handled = {}
    /\ reported = {} /\ onDoneCount = 0

\* Review button: mounts the modal, whose useState initialisers run
Open ==
    /\ ~opened
    /\ opened' = TRUE /\ mounted' = TRUE
    /\ keeperId' = selectDefaultKeeper(images)
    /\ queue' = InitialQueue(images)
    /\ index' = 0 /\ processed' = 0
    /\ total' = Max(0, Len(images) - 1)
    /\ isClosing' = FALSE /\ animType' = "none"
    /\ reviewClusterIdx' = 0 /\ reviewCluster' = clusters[1]
    /\ UNCHANGED <<exact, browse, images, clusters, library, tracker, ephemeralRemoved,
                   calls, timers, server, gestures, history,
                   onDoneCount, handled>>
    /\ KbRefresh

\* ------------------------------------------------------ handlers (sync)
\* close(): Escape key or Close button
close ==
    /\ mounted /\ Pending < MaxPending /\ gestures < MaxGestures
    /\ gestures' = gestures + 1
    /\ isClosing' = TRUE
    /\ timers' = Append(timers, CloseTimer)
    /\ UNCHANGED <<exact, browse, images, clusters, library, tracker, review, ephemeralRemoved,
                   opened, mounted, keeperId, queue, index, processed,
                   total, animType, keyboard, calls, server, history,
                   onDoneCount, handled>>

\* the guard `mergeMutation.isLoading || ignoreMutation.isLoading || animType`
\* as seen by the closure: the latest render for a button, the registered
\* keydown handler for a key
Busy(src) ==
    IF src = "key"
    THEN kbMergeLoading \/ kbIgnoreLoading \/ kbAnim # "none"
    ELSE mergeLoading \/ ignoreLoading \/ animType # "none"

\* the `disabled` attribute of the Merge / Ignore / Ignore Remaining buttons
ActionDisabled ==
    rightId = 0 \/ mergeLoading \/ ignoreLoading \/ animType # "none"

NewCall(kind) ==
    [kind |-> kind, keeper |-> keeperId, dup |-> rightId, q |-> queue,
     idx |-> index, cur |-> TRUE, cidx |-> reviewClusterIdx]

\* mutateAsync: the observer drops the mutation it was watching
Unwatch(kind) ==
    [k \in DOMAIN calls |->
        IF calls[k].kind = kind THEN [calls[k] EXCEPT !.cur = FALSE] ELSE calls[k]]

\* doMerge()/doIgnore() up to the await
StartMutation(kind, src) ==
    /\ mounted /\ rightId # 0
    /\ src = "button" => ~ActionDisabled
    /\ ~Busy(src)
    /\ Pending < MaxPending /\ gestures < MaxGestures
    /\ gestures' = gestures + 1
    /\ calls' = Append(Unwatch(kind), NewCall(kind))
    /\ UNCHANGED <<exact, browse, images, clusters, library, tracker, review, ephemeralRemoved,
                   opened, mounted, session, keyboard, timers, server,
                   history, onDoneCount, handled>>

doMerge == \E src \in {"button", "key"} : StartMutation("merge", src)

doIgnore == \E src \in {"button", "key"} : StartMutation("ignore", src)

\* Ignore Remaining onClick up to the await (confirm() answered OK)
ignoreRemaining ==
    /\ mounted /\ ~ActionDisabled
    /\ keeperId # 0 /\ Len(queue) # 0
    /\ Pending < MaxPending /\ gestures < MaxGestures
    /\ gestures' = gestures + 1
    /\ calls' = Append(calls, [NewCall("ignoreAll") EXCEPT !.cur = FALSE])
    /\ UNCHANGED <<exact, browse, images, clusters, library, tracker, review, ephemeralRemoved,
                   opened, mounted, session, keyboard, timers, server,
                   history, onDoneCount, handled>>

\* skip() up to setTimeout
skip ==
    \E src \in {"button", "key"} :
        /\ mounted /\ rightId # 0
        /\ IF src = "key" THEN kbAnim = "none" ELSE animType = "none"
        /\ Pending < MaxPending /\ gestures < MaxGestures
        /\ gestures' = gestures + 1
        /\ animType' = "skip"
        /\ timers' = Append(timers, [kind |-> "skip", q |-> queue, idx |-> index,
                                      rid |-> rightId, res |-> "ok"])
        /\ UNCHANGED <<exact, browse, images, clusters, library, tracker, review, ephemeralRemoved,
                   opened, mounted, keeperId, queue, index,
                       processed, total, isClosing, keyboard, calls, server,
                       history, onDoneCount, handled>>

\* the queue swapKeeper sets: rest = q.filter(id => id !== rightId), then
\* rest.splice(index, 0, keeperId)
swappedQueue(k, q, i0) == InsertAt(FilterOut(q, RightOf(q, i0)), i0, k)

\* swapKeeper(): K key or Set Right as Keeper button
swapKeeper ==
    /\ mounted /\ rightId # 0 /\ gestures < MaxGestures
    /\ gestures' = gestures + 1
    /\ keeperId' = rightId
    /\ queue' = swappedQueue(keeperId, queue, index)
    /\ UNCHANGED <<exact, browse, images, clusters, library, tracker, review, ephemeralRemoved,
                   opened, mounted, index, processed, total, isClosing,
                   animType, calls, timers, server, history,
                   onDoneCount, handled>>
    /\ KbRefresh

\* --------------------------------------------- continuations and timers
\* the pairs an ignore request records when it succeeds
PairsOf(c) ==
    IF c.kind = "ignoreAll" THEN {Pair(c.keeper, c.q[k]) : k \in DOMAIN c.q}
    ELSE IF c.kind = "ignore" THEN {Pair(c.keeper, c.dup)}
    ELSE {}

\* the payloads handed to onProcessed after a successful call
PayloadsOf(c) ==
    IF c.kind = "ignoreAll"
    THEN {[action |-> "ignored", keeperId |-> c.keeper, duplicateId |-> c.q[k]] :
            k \in DOMAIN c.q}
    ELSE {[action |-> IF c.kind = "merge" THEN "merged" ELSE "ignored",
           keeperId |-> c.keeper, duplicateId |-> c.dup]}

\* the server's side of a call that ends with outcome res
Served(c, res) ==
    /\ gone' = IF res = "ok" /\ c.kind = "merge" THEN gone \cup {c.dup} ELSE gone
    /\ ledger' = IF res = "ok" THEN ledger \cup PairsOf(c) ELSE ledger
    /\ UNCHANGED external

\* onProcessed called after the catch block instead of inside the try
onProcessedAfterCatch(c, res) ==
    /\ reported' = reported \cup PayloadsOf(c)
    /\ ephemeralRemoved' = RecordRemoved(ephemeralRemoved, c.cidx, PayloadsOf(c))

\* onProcessed && onProcessed(...): inside the try, after the await
onProcessed(c, res) ==
    /\ reported' = IF res = "ok" THEN reported \cup PayloadsOf(c) ELSE reported
    /\ ephemeralRemoved' =
            IF res = "ok" THEN RecordRemoved(ephemeralRemoved, c.cidx, PayloadsOf(c))
            ELSE ephemeralRemoved

\* bookkeeping of the outcomes seen by the await
Awaited(c, res) ==
    /\ okCalls' = IF res = "ok" /\ c.kind # "ignoreAll" THEN okCalls + 1 ELSE okCalls
    /\ clean' = (clean /\ res = "ok" /\ c.kind # "ignoreAll")

\* doMerge()/doIgnore() from the await to the second setTimeout: the catch
\* block is empty, so every outcome continues with the animation
MutationSettled(i, res) ==
    LET c == calls[i] IN
    /\ c.kind \in {"merge", "ignore"}
    /\ res \in Outcomes(c)
    /\ Served(c, res)
    /\ onProcessed(c, res)
    /\ Awaited(c, res)
    /\ calls' = Drop(calls, i)
    /\ animType' = IF mounted THEN c.kind ELSE animType
    /\ timers' = Append(timers, [kind |-> c.kind, q |-> c.q, idx |-> c.idx,
                                  rid |-> c.dup, res |-> res])
    /\ UNCHANGED <<exact, browse, images, clusters, library, tracker, review,
                   opened, mounted, keeperId, queue, index, processed,
                   total, isClosing, keyboard, gestures, onDoneCount, handled>>

\* Ignore Remaining onClick from the await on
IgnoreRemainingSettled(i, res) ==
    LET c == calls[i] IN
    /\ c.kind = "ignoreAll"
    /\ res \in Outcomes(c)
    /\ Served(c, res)
    /\ onProcessed(c, res)
    /\ Awaited(c, res)
    /\ calls' = Drop(calls, i)
    /\ timers' = Append(timers, CloseTimer)
    /\ UNCHANGED <<exact, browse, images, clusters, library, tracker, review,
                   opened, mounted, keeperId, index, total, animType,
                   gestures, onDoneCount, handled>>
    /\ IF mounted
       THEN /\ processed' = processed + Len(c.q)
            /\ queue' = <<>>
            /\ isClosing' = TRUE
            /\ KbRefresh
       ELSE UNCHANGED <<processed, queue, isClosing, keyboard>>

CallSettled ==
    \E i \in DOMAIN calls : \E res \in {"ok", "fail", "notfound"} :
        MutationSettled(i, res) \/ IgnoreRemainingSettled(i, res)

\* the removal callback of doMerge / doIgnore
RemovalTimer(i) ==
    LET t == timers[i]
        rest == RemoveAt(t.q, t.idx)
    IN
    /\ t.kind \in {"merge", "ignore"}
    /\ MayFire(i)
    /\ timers' = IF rest = <<>> THEN Append(Drop(timers, i), CloseTimer)
                  ELSE Drop(timers, i)
    /\ UNCHANGED <<exact, browse, images, clusters, library, tracker, review, ephemeralRemoved,
                   opened, mounted, keeperId, total, calls, server,
                   gestures, history, onDoneCount>>
    /\ handled' = IF mounted THEN handled \cup {t.res} ELSE handled
    /\ IF mounted
       THEN /\ queue' = rest
            /\ processed' = processed + 1
            /\ animType' = "none"
            /\ isClosing' = IF rest = <<>> THEN TRUE ELSE isClosing
            /\ index' = IF rest = <<>> THEN index ELSE Min(t.idx, Len(rest) - 1)
            /\ KbRefresh
       ELSE UNCHANGED <<queue, processed, animType, isClosing, index, keyboard>>

\* the callback of skip()
SkipTimer(i) ==
    LET t == timers[i]
        rest == Append(RemoveAt(t.q, t.idx), t.rid)
    IN
    /\ t.kind = "skip"
    /\ MayFire(i)
    /\ UNCHANGED <<exact, browse, images, clusters, library, tracker, review, ephemeralRemoved,
                   opened, mounted, keeperId, index, processed, total,
                   calls, server, gestures, history, onDoneCount, handled>>
    /\ IF Len(t.q) <= 1
       THEN /\ timers' = Append(Drop(timers, i), CloseTimer)
            /\ animType' = IF mounted THEN "none" ELSE animType
            /\ isClosing' = IF mounted THEN TRUE ELSE isClosing
            /\ UNCHANGED <<queue, keyboard>>
       ELSE /\ timers' = Drop(timers, i)
            /\ UNCHANGED isClosing
            /\ IF mounted
               THEN /\ queue' = rest
                    /\ animType' = "none"
                    /\ KbRefresh
               ELSE UNCHANGED <<queue, animType, keyboard>>

\* the callback of close(): onClose() unmounts the modal, then onDone()
CloseTimerFires(i) ==
    /\ timers[i].kind = "close"
    /\ MayFire(i)
    /\ timers' = Drop(timers, i)
    /\ mounted' = FALSE
    /\ isClosing' = IF mounted THEN FALSE ELSE isClosing
    /\ onDoneCount' = onDoneCount + 1
    /\ reviewClusterIdx' = NullIdx /\ reviewCluster' = <<>>
    /\ UNCHANGED <<exact, browse, images, clusters, library, tracker, ephemeralRemoved,
                   opened, keeperId, queue, index, processed, total,
                   animType, keyboard, calls, server, gestures, history, handled>>

TimerFires ==
    \E i \in DOMAIN timers : RemovalTimer(i) \/ SkipTimer(i) \/ CloseTimerFires(i)

\* another client merges or deletes a member of the cluster
ExternalDelete ==
    /\ opened /\ external < MaxExternal
    /\ \E id \in Range([k \in DOMAIN images |-> images[k].id]) \ gone :
            gone' = gone \cup {id}
    /\ external' = external + 1
    /\ UNCHANGED <<exact, browse, images, clusters, library, tracker, review, ephemeralRemoved,
                   opened, mounted, session, keyboard, calls, timers,
                   ledger, gestures, history, onDoneCount, handled>>

Next ==
    \/ Open
    \/ close
    \/ doMerge
    \/ doIgnore
    \/ ignoreRemaining
    \/ skip
    \/ swapKeeper
    \/ CallSettled
    \/ TimerFires
    \/ ExternalDelete

Spec == Init /\ [][Next]_vars

\* ------------------------------------------- default keeper specification
\* the keeper selection applied to every cluster of the bounded universe
InitKeeper ==
    /\ images \in AllClusters
    /\ clusters = <<IdsOf(images)>>
    /\ reviewClusterIdx = NullIdx /\ reviewCluster = <<>>
    /\ ephemeralRemoved = [idx \in ClusterIdxs |-> NoneRemoved]
    /\ LibraryAtRest /\ TrackerAtRest /\ ExactAtRest /\ BrowseAtRest
    /\ opened = FALSE /\ mounted = FALSE
    /\ keeperId = 0 /\ queue = <<>> /\ index = 0 /\ processed = 0
    /\ total = 0 /\ isClosing = FALSE /\ animType = "none"
    /\ kbAnim = "none" /\ kbMergeLoading = FALSE /\ kbIgnoreLoading = FALSE
    /\ calls = <<>> /\ timers = <<>>
    /\ gone = {} /\ ledger = {} /\ external = 0
    /\ gestures = 0 /\ okCalls = 0 /\ clean = TRUE /\ handled = {}
    /\ reported = {} /\ onDoneCount = 0

NextKeeper == Open

SpecKeeper == InitKeeper /\ [][NextKeeper]_vars

\* ------------------------------------------------------ cluster builder
Hashes == 0..(2^HashBits - 1)

Bit(h, k) == (h \div 2^k) % 2

\* number of differing bits
Hamming(a, b) == Cardinality({k \in 0..(HashBits - 1) : Bit(a, k) # Bit(b, k)})

\* bucket key: the first n bits of the hash
Prefix(h, n) == h \div 2^(HashBits - n)

\* hashed images that still exist
Hashed == {i \in LibIds : phash[i] # NoHash /\ i \notin gone}

\* the pair is compared: same bucket, or (when the builder looks across
\* buckets) buckets whose keys are within threshold bits of each other
Compared(a, b) ==
    LET ka == Prefix(phash[a], prefixBits)
        kb == Prefix(phash[b], prefixBits)
    IN  IF crossBuckets THEN Hamming(ka, kb) <= threshold ELSE ka = kb

Near(a, b) == Hamming(phash[a], phash[b]) <= threshold

isIgnored(a, b) == Pair(a, b) \in ledger

\* the builder with the ledger left out of the edge filter
EdgeIgnoringLedger(a, b) == a # b /\ Compared(a, b) /\ Near(a, b)

\* the builder matching bit-identical hashes only
EdgeExact(a, b) ==
    a # b /\ Compared(a, b) /\ phash[a] = phash[b] /\ ~isIgnored(a, b)

\* clustering edge
Edge(a, b) == a # b /\ Compared(a, b) /\ Near(a, b) /\ ~isIgnored(a, b)

RECURSIVE Component(_)
Component(S) ==
    LET T == S \cup {b \in Hashed : \E a \in S : Edge(a, b)}
    IN  IF T = S THEN S ELSE Component(T)

Components == {Component({a}) : a \in Hashed}

SetMin(S) == CHOOSE x \in S : \A y \in S : x <= y

RECURSIVE SortedSeq(_)
SortedSeq(S) ==
    IF S = {} THEN <<>> ELSE <<SetMin(S)>> \o SortedSeq(S \ {SetMin(S)})

RECURSIVE ClusterList(_)
ClusterList(CS) ==
    IF CS = {} THEN <<>>
    ELSE LET first == CHOOSE c \in CS : \A d \in CS : SetMin(c) <= SetMin(d)
         IN  <<SortedSeq(first)>> \o ClusterList(CS \ {first})

\* GET duplicates: the components with more than one member, in a fixed order
DuplicateClusters == ClusterList({c \in Components : Cardinality(c) > 1})

\* ------------------------------------------------ library specification
InitLibrary ==
    /\ images = <<>>
    /\ opened = FALSE /\ mounted = FALSE
    /\ keeperId = 0 /\ queue = <<>> /\ index = 0 /\ processed = 0
    /\ total = 0 /\ isClosing = FALSE /\ animType = "none"
    /\ kbAnim = "none" /\ kbMergeLoading = FALSE /\ kbIgnoreLoading = FALSE
    /\ calls = <<>> /\ timers = <<>>
    /\ gone = {} /\ ledger = {} /\ external = 0
    /\ gestures = 0 /\ okCalls = 0 /\ clean = TRUE /\ handled = {}
    /\ reported = {} /\ onDoneCount = 0
    /\ phash \in [LibIds -> Hashes \cup {NoHash}]
    /\ threshold \in 0..MaxThreshold
    /\ prefixBits \in 1..(HashBits - 1)
    /\ crossBuckets \in BOOLEAN
    /\ clusters = <<>>
    /\ reviewClusterIdx = NullIdx /\ reviewCluster = <<>>
    /\ ephemeralRemoved = [idx \in ClusterIdxs |-> NoneRemoved]
    /\ TrackerAtRest /\ ExactAtRest /\ BrowseAtRest

\* the clusters query is answered (first load or refetch)
getDuplicates ==
    /\ Len(DuplicateClusters) <= MaxClusters
    /\ clusters' = DuplicateClusters
    /\ UNCHANGED <<exact, browse, images, opened, mounted, session, keyboard, calls, timers,
                   server, gestures, okCalls, clean, handled, reported,
                   onDoneCount, review, ephemeralRemoved, library, tracker>>

\* Review button of a rendered cluster
Review ==
    \E idx \in ClusterIdxs :
        /\ reviewClusterIdx = NullIdx /\ Rendered(idx)
        /\ reviewClusterIdx' = idx /\ reviewCluster' = clusters[idx + 1]
        /\ UNCHANGED <<exact, browse, images, opened, mounted, session, keyboard, calls, timers,
                       server, gestures, okCalls, clean, handled, reported,
                       onDoneCount, clusters, ephemeralRemoved, library, tracker>>

\* onClose of the modal
onClose ==
    /\ reviewClusterIdx # NullIdx
    /\ reviewClusterIdx' = NullIdx /\ reviewCluster' = <<>>
    /\ UNCHANGED <<exact, browse, images, opened, mounted, session, keyboard, calls, timers,
                   server, gestures, okCalls, clean, handled, reported,
                   onDoneCount, clusters, ephemeralRemoved, library, tracker>>

\* a merge or ignore call of the session under review is answered: any two
\* members of the reviewed cluster can be keeper and duplicate
ReviewCall ==
    \E kind \in {"merge", "ignore"} : \E k, d \in Range(reviewCluster) :
        LET c == [kind |-> kind, keeper |-> k, dup |-> d, q |-> <<d>>,
                  idx |-> 0, cur |-> TRUE, cidx |-> reviewClusterIdx]
        IN  /\ reviewClusterIdx # NullIdx /\ k # d
            /\ okCalls < MaxReports
            /\ \E res \in Outcomes(c) :
                    /\ res # "fail"
                    /\ Served(c, res)
                    /\ onProcessed(c, res)
                    /\ Awaited(c, res)
            /\ UNCHANGED <<exact, browse, images, opened, mounted, session, keyboard, calls,
                           timers, gestures, handled, onDoneCount, clusters,
                           review, library, tracker>>

\* the hashing job stores the hash of an image that had none
computeMissing ==
    \E i \in LibIds : \E h \in Hashes :
        /\ phash[i] = NoHash /\ i \notin gone
        /\ phash' = [phash EXCEPT ![i] = h]
        /\ UNCHANGED <<exact, browse, images, opened, mounted, session, keyboard, calls, timers,
                       server, gestures, okCalls, clean, handled, reported,
                       onDoneCount, clusters, review, ephemeralRemoved,
                       threshold, prefixBits, crossBuckets, tracker>>

\* an image is deleted outside any review
deleteImage ==
    /\ external < MaxExternal
    /\ \E id \in LibIds \ gone : gone' = gone \cup {id}
    /\ external' = external + 1
    /\ UNCHANGED <<exact, browse, images, opened, mounted, session, keyboard, calls, timers,
                   ledger, gestures, okCalls, clean, handled, reported,
                   onDoneCount, clusters, review, ephemeralRemoved, library,
                   tracker>>

NextLibrary ==
    \/ getDuplicates
    \/ Review
    \/ onClose
    \/ ReviewCall
    \/ computeMissing
    \/ deleteImage

SpecLibrary == InitLibrary /\ [][NextLibrary]_vars

\* ---------------------------------------------------------- job tracker
Terminal == {"completed", "failed", "cancelled"}

\* POST /jobs/{id}/force-kill with no test of the job's status
forceKilledAnyStatus(st) == IF st = "none" THEN st ELSE "failed"

\* POST /jobs/{id}/force-kill: a running job becomes failed, any other job
\* is left as it is
forceKilled(st) == IF st = "running" THEN "failed" ELSE st

\* DELETE /jobs/{id}: the statuses a job can have after the request; a
\* pending job is cancelled, a running job is cancelled or refuses
cancelled(st) ==
    IF st = "pending" THEN {"cancelled"}
    ELSE IF st = "running" THEN {"running", "cancelled"}
    ELSE {st}

\* the Cancel button is rendered for the job as listed
cancelOffered(j) == jobsData[j] = "pending"

\* the Force Kill button is rendered for the job as listed
forceKillOffered(j) == jobsData[j] = "running"

\* everything outside the Jobs page at rest
InitJobs ==
    /\ images = <<>>
    /\ opened = FALSE /\ mounted = FALSE
    /\ keeperId = 0 /\ queue = <<>> /\ index = 0 /\ processed = 0
    /\ total = 0 /\ isClosing = FALSE /\ animType = "none"
    /\ kbAnim = "none" /\ kbMergeLoading = FALSE /\ kbIgnoreLoading = FALSE
    /\ calls = <<>> /\ timers = <<>>
    /\ gone = {} /\ ledger = {} /\ external = 0
    /\ gestures = 0 /\ okCalls = 0 /\ clean = TRUE /\ handled = {}
    /\ reported = {} /\ onDoneCount = 0
    /\ clusters = <<>>
    /\ reviewClusterIdx = NullIdx /\ reviewCluster = <<>>
    /\ ephemeralRemoved = [idx \in ClusterIdxs |-> NoneRemoved]
    /\ LibraryAtRest /\ TrackerAtRest /\ ExactAtRest /\ BrowseAtRest

JobsOnly ==
    UNCHANGED <<exact, browse, images, opened, mounted, session, keyboard, calls, timers,
                server, gestures, okCalls, clean, handled, reported,
                onDoneCount, clusters, review, ephemeralRemoved, library>>

\* a start button of the Jobs page: the server creates a pending job
startJob(j) ==
    /\ jobs[j] = "none"
    /\ jobs' = [jobs EXCEPT ![j] = "pending"]
    /\ UNCHANGED jobsData /\ JobsOnly

\* a worker picks the job up
workerStarts(j) ==
    /\ jobs[j] = "pending"
    /\ jobs' = [jobs EXCEPT ![j] = "running"]
    /\ UNCHANGED jobsData /\ JobsOnly

\* the worker ends the job: complete(jobId, result) or fail(jobId, error)
workerEnds(j) ==
    /\ jobs[j] = "running"
    /\ \E st \in {"completed", "failed"} : jobs' = [jobs EXCEPT ![j] = st]
    /\ UNCHANGED jobsData /\ JobsOnly

\* the jobs query is answered (refetchInterval, invalidateQueries)
getJobs ==
    /\ jobsData' = jobs
    /\ UNCHANGED jobs /\ JobsOnly

\* Cancel button
cancelJob(j) ==
    /\ cancelOffered(j)
    /\ \E st \in cancelled(jobs[j]) : jobs' = [jobs EXCEPT ![j] = st]
    /\ UNCHANGED jobsData /\ JobsOnly

\* Force Kill button of a job row
forceKillJob(j) ==
    /\ forceKillOffered(j)
    /\ jobs' = [jobs EXCEPT ![j] = forceKilled(@)]
    /\ UNCHANGED jobsData /\ JobsOnly

\* Force-Kill Stalled Jobs button: the server kills the jobs it finds stalled
forceKillStalled ==
    /\ \E stalled \in SUBSET {j \in JobIds : jobs[j] = "running"} :
            jobs' = [j \in JobIds |-> IF j \in stalled THEN forceKilled(jobs[j])
                                      ELSE jobs[j]]
    /\ UNCHANGED jobsData /\ JobsOnly

NextJobs ==
    \/ \E j \in JobIds : startJob(j)
    \/ \E j \in JobIds : workerStarts(j)
    \/ \E j \in JobIds : workerEnds(j)
    \/ getJobs
    \/ \E j \in JobIds : cancelJob(j)
    \/ \E j \in JobIds : forceKillJob(j)
    \/ forceKillStalled

SpecJobs == InitJobs /\ [][NextJobs]_vars

\* ------------------------------------------ exact duplicates (Duplicates page)
\* everything outside the exact-duplicates panel, at rest
InitExact ==
    /\ images = <<>>
    /\ opened = FALSE /\ mounted = FALSE
    /\ keeperId = 0 /\ queue = <<>> /\ index = 0 /\ processed = 0
    /\ total = 0 /\ isClosing = FALSE /\ animType = "none"
    /\ kbAnim = "none" /\ kbMergeLoading = FALSE /\ kbIgnoreLoading = FALSE
    /\ calls = <<>> /\ timers = <<>>
    /\ gone = {} /\ ledger = {} /\ external = 0
    /\ gestures = 0 /\ okCalls = 0 /\ clean = TRUE /\ handled = {}
    /\ reported = {} /\ onDoneCount = 0
    /\ clusters = <<>>
    /\ reviewClusterIdx = NullIdx /\ reviewCluster = <<>>
    /\ ephemeralRemoved = [idx \in ClusterIdxs |-> NoneRemoved]
    /\ LibraryAtRest /\ TrackerAtRest /\ ExactAtRest /\ BrowseAtRest

ExactOnly ==
    UNCHANGED <<images, opened, mounted, session, keyboard, calls, timers,
                server, gestures, okCalls, clean, handled, reported,
                onDoneCount, clusters, review, ephemeralRemoved, library,
                tracker, browse>>

\* the items of a group: width 0 and createdAt 0 stand for a missing width
\* and a missing created_at
ExactItems == [id : Ids, width : {0, 1}, height : {1}, createdAt : {0, 1}]

\* the items of one group, listed in the order of their ids
ItemLists ==
    UNION {{s \in [1..n -> ExactItems] :
                \A j, k \in 1..n : j < k => s[j].id < s[k].id} : n \in 1..MaxImages}

\* the answers of getDuplicatesExact: up to MaxGroups groups, the k-th with
\* key k, no image in two groups
ExactScans ==
    {<<>>} \cup
    UNION {{gs \in [1..n -> [key : GroupKeys, items : ItemLists]] :
                /\ \A k \in 1..n : gs[k].key = k
                /\ \A j, k \in 1..n :
                      j # k => Range(IdsOf(gs[j].items)) \cap Range(IdsOf(gs[k].items)) = {}
                /\ Cardinality(UNION {Range(IdsOf(gs[k].items)) : k \in 1..n}) <= MaxImages}
           : n \in 1..MaxGroups}

\* the comparator with the resolution test alone
exactCompareByResolution(a, b) == (b.width * b.height) - (a.width * a.height)

\* the comparator handed to sort(): negative when a goes before b
exactCompare(a, b) ==
    LET resA == a.width * a.height
        resB == b.width * b.height
    IN  IF resB # resA THEN resB - resA
        ELSE IF b.createdAt # a.createdAt THEN b.createdAt - a.createdAt
        ELSE b.id - a.id

\* x put into the sorted sequence s, behind the entries it does not precede
InsertSorted(s, x) ==
    LET before == {j \in DOMAIN s : exactCompare(x, s[j]) < 0}
        k == IF before = {} THEN Len(s) + 1 ELSE SetMin(before)
    IN  SubSeq(s, 1, k - 1) \o <<x>> \o SubSeq(s, k, Len(s))

RECURSIVE SortedPrefix(_, _)
SortedPrefix(items, n) ==
    IF n = 0 THEN <<>> ELSE InsertSorted(SortedPrefix(items, n - 1), items[n])

\* [...items].sort(comparator): Array.prototype.sort is stable
sorted(items) == SortedPrefix(items, Len(items))

\* the request Merge All sends for the group g
MergeAllRequest(g) ==
    LET keepId == sorted(g.items)[1].id
        removeIds == SelectSeq(IdsOf(g.items), LAMBDA x : x # keepId)
    IN  [by |-> "all", key |-> g.key, keepId |-> keepId,
         removeIds |-> Range(removeIds)]

RECURSIVE MergeAllRequests(_)
MergeAllRequests(gs) ==
    IF gs = <<>> THEN <<>>
    ELSE LET r == MergeAllRequest(Head(gs))
         IN  (IF r.keepId # 0 /\ r.removeIds # {} THEN <<r>> ELSE <<>>)
                \o MergeAllRequests(Tail(gs))

\* Scan button
Scan ==
    /\ exactGroups' \in ExactScans
    /\ selectedExact' = [k \in GroupKeys |-> NoSelection]
    /\ exactRequests' = <<>>
    /\ ExactOnly

\* Merge All button: one request for each group with more than one item, in
\* turn; a rejected request is swallowed and the loop goes on.  mergingExact
\* is true only while the loop runs.
MergeAll ==
    /\ Len(exactGroups) > 0
    /\ exactRequests' =
            MergeAllRequests(SelectSeq(exactGroups, LAMBDA g : Len(g.items) > 1))
    /\ UNCHANGED <<exactGroups, selectedExact>>
    /\ ExactOnly

\* Keep radio of item it of group g
keepRadio(g, it) ==
    /\ selectedExact' = [selectedExact EXCEPT ![g.key] =
                            [keepId |-> it.id, removeIds |-> @.removeIds]]
    /\ exactRequests' = <<>>
    /\ UNCHANGED exactGroups
    /\ ExactOnly

\* Remove checkbox of item it of group g
removeCheckbox(g, it) ==
    /\ selectedExact' = [selectedExact EXCEPT ![g.key] =
            [keepId |-> @.keepId,
             removeIds |-> IF it.id \in @.removeIds THEN @.removeIds \ {it.id}
                           ELSE @.removeIds \cup {it.id}]]
    /\ exactRequests' = <<>>
    /\ UNCHANGED exactGroups
    /\ ExactOnly

canMerge(g) ==
    selectedExact[g.key].keepId # 0 /\ selectedExact[g.key].removeIds # {}

\* Merge Selected button of group g: the request, then on success the new
\* scan and the selection of the group dropped; a rejection only alerts
MergeSelected(g) ==
    LET state == selectedExact[g.key] IN
    /\ canMerge(g)
    /\ exactRequests' = <<[by |-> "selected", key |-> g.key,
                           keepId |-> state.keepId, removeIds |-> state.removeIds]>>
    /\ \/ /\ exactGroups' \in ExactScans
          /\ selectedExact' = [selectedExact EXCEPT ![g.key] = NoSelection]
       \/ UNCHANGED <<exactGroups, selectedExact>>
    /\ ExactOnly

NextExact ==
    \/ Scan
    \/ MergeAll
    \/ \E k \in DOMAIN exactGroups : \E j \in DOMAIN exactGroups[k].items :
            keepRadio(exactGroups[k], exactGroups[k].items[j])
    \/ \E k \in DOMAIN exactGroups : \E j \in DOMAIN exactGroups[k].items :
            removeCheckbox(exactGroups[k], exactGroups[k].items[j])
    \/ \E k \in DOMAIN exactGroups : MergeSelected(exactGroups[k])

SpecExact == InitExact /\ [][NextExact]_vars

\* ------------------------------------------------------------ Browse page
\* the page of images listed
browseImages == [k \in 1..MaxBrowse |-> k]

BrowseIds == Range(browseImages)

\* images.findIndex(img => img.id === imageId)
findIndex(imageId) ==
    IF imageId \in BrowseIds
    THEN SetMin({k \in DOMAIN browseImages : browseImages[k] = imageId}) - 1
    ELSE NullIdx

BrowseOnly ==
    UNCHANGED <<images, opened, mounted, session, keyboard, calls, timers,
                server, gestures, okCalls, clean, handled, reported,
                onDoneCount, clusters, review, ephemeralRemoved, library,
                tracker, exact>>

\* Select Images / Exit Selection button and the floating button
toggleBulkMode ==
    /\ bulkMode' = ~bulkMode
    /\ selectedImages' = IF bulkMode THEN {} ELSE selectedImages
    /\ lastSelectedIndex' = NullIdx
    /\ UNCHANGED selectedImageId
    /\ BrowseOnly

\* S key
keyS ==
    /\ bulkMode' = ~bulkMode
    /\ selectedImages' = IF ~bulkMode THEN {} ELSE selectedImages
    /\ UNCHANGED <<lastSelectedIndex, selectedImageId>>
    /\ BrowseOnly

\* A key
keyA ==
    /\ bulkMode
    /\ selectedImages' = BrowseIds
    /\ UNCHANGED <<bulkMode, lastSelectedIndex, selectedImageId>>
    /\ BrowseOnly

\* Escape key
keyEscape ==
    /\ bulkMode
    /\ bulkMode' = FALSE
    /\ selectedImages' = {}
    /\ UNCHANGED <<lastSelectedIndex, selectedImageId>>
    /\ BrowseOnly

\* the toggle of one image in the selection
toggled(sel, imageId) ==
    IF imageId \in sel THEN sel \ {imageId} ELSE sel \cup {imageId}

\* click on a thumbnail
handleImageClick(imageId, shiftKey) ==
    LET clickedIndex == findIndex(imageId) IN
    /\ IF bulkMode
       THEN /\ selectedImages' =
                    IF shiftKey /\ lastSelectedIndex # NullIdx /\ clickedIndex # NullIdx
                    THEN selectedImages \cup
                            {browseImages[i + 1] :
                                i \in Min(lastSelectedIndex, clickedIndex)
                                        ..Max(lastSelectedIndex, clickedIndex)}
                    ELSE toggled(selectedImages, imageId)
            /\ lastSelectedIndex' = clickedIndex
            /\ UNCHANGED selectedImageId
       ELSE /\ selectedImageId' = imageId
            /\ UNCHANGED <<selectedImages, lastSelectedIndex>>
    /\ UNCHANGED bulkMode
    /\ BrowseOnly

\* the checkbox on a thumbnail, rendered in selection mode
toggleImageSelection(imageId) ==
    /\ bulkMode
    /\ selectedImages' = toggled(selectedImages, imageId)
    /\ UNCHANGED <<bulkMode, lastSelectedIndex, selectedImageId>>
    /\ BrowseOnly

\* the bulk actions bar is rendered
BulkBar == bulkMode /\ Cardinality(selectedImages) > 0

selectAll ==
    /\ BulkBar
    /\ selectedImages' = BrowseIds
    /\ UNCHANGED <<bulkMode, lastSelectedIndex, selectedImageId>>
    /\ BrowseOnly

clearSelection ==
    /\ BulkBar
    /\ selectedImages' = {}
    /\ UNCHANGED <<bulkMode, lastSelectedIndex, selectedImageId>>
    /\ BrowseOnly

\* onClose of the image modal
closeImageModal ==
    /\ selectedImageId # 0
    /\ selectedImageId' = 0
    /\ UNCHANGED <<bulkMode, selectedImages, lastSelectedIndex>>
    /\ BrowseOnly

NextBrowse ==
    \/ toggleBulkMode
    \/ keyS
    \/ keyA
    \/ keyEscape
    \/ \E id \in BrowseIds : \E shiftKey \in BOOLEAN : handleImageClick(id, shiftKey)
    \/ \E id \in BrowseIds : toggleImageSelection(id)
    \/ selectAll
    \/ clearSelection
    \/ closeImageModal

InitBrowse == InitExact

SpecBrowse == InitBrowse /\ [][NextBrowse]_vars

\* ----------------------------------------------------------------------
\* Properties
\* ----------------------------------------------------------------------
RemovalPending(kinds) == \E i \in DOMAIN timers : timers[i].kind \in kinds
CallPending(kinds) == \E i \in DOMAIN calls : calls[i].kind \in kinds

\* C1: when the merge call fails with a network/storage error the transition
\* is not applied: nothing is recorded on the server or reported, and the
\* removal that follows leaves the queue and the processed counter as they were.
C1_FailedMergeNotApplied ==
    [][ /\ \A i \in DOMAIN calls :
             (calls[i].kind = "merge" /\ MutationSettled(i, "fail"))
                => UNCHANGED <<gone, ledger, reported, queue, processed>>
        /\ \A i \in DOMAIN timers :
             (timers[i].kind = "merge" /\ timers[i].res = "fail" /\ RemovalTimer(i))
                => UNCHANGED <<queue, processed>> ]_vars

\* C2: when an ignore call (single or Ignore Remaining) fails, every item that
\* was in the queue is still in the queue after the failure has been handled.
C2_FailedIgnoreNotApplied ==
    [][ /\ \A i \in DOMAIN calls :
             (calls[i].kind = "ignoreAll" /\ IgnoreRemainingSettled(i, "fail"))
                => Range(queue) \subseteq Range(queue')
        /\ \A i \in DOMAIN timers :
             (timers[i].kind = "ignore" /\ timers[i].res = "fail" /\ RemovalTimer(i))
                => Range(queue) \subseteq Range(queue') ]_vars

\* C3: while a merge or ignore call, or its removal timer, is pending, no
\* merge / ignore / skip / swapKeeper / ignoreRemaining request is accepted.
C3_OneTransitionInFlight ==
    [][ (CallPending({"merge", "ignore", "ignoreAll"}) \/ RemovalPending({"merge", "ignore"}))
            => ~(doMerge \/ doIgnore \/ skip \/ swapKeeper \/ ignoreRemaining) ]_vars

\* C4: with a queue of N duplicates and only successful merge / ignore calls,
\* once every call has been handled the queue is empty exactly when N calls
\* have succeeded, and the session is then closing.
C4_EmptyAfterNSuccesses ==
    (mounted /\ clean /\ calls = <<>> /\ ~RemovalPending({"merge", "ignore", "skip"}))
        => /\ (okCalls = total) <=> (queue = <<>>)
           /\ (queue = <<>>) => isClosing

\* the member that is largest by (area, createdAt, id)
Better(a, b) ==
    \/ Area(a) > Area(b)
    \/ Area(a) = Area(b) /\ a.createdAt > b.createdAt
    \/ Area(a) = Area(b) /\ a.createdAt = b.createdAt /\ a.id > b.id

PolicyKeeper(imgs) ==
    imgs[CHOOSE k \in DOMAIN imgs :
            \A j \in DOMAIN imgs : j # k => Better(imgs[k], imgs[j])].id

\* C5: the session starts with the member of largest area as keeper, ties
\* broken by most recent creation time and then by highest id.
C5_KeeperFollowsPolicy ==
    (mounted /\ gestures = 0) => keeperId = PolicyKeeper(images)

Reorder(imgs, p) == [k \in DOMAIN imgs |-> imgs[p[k]]]

\* C6: the keeper chosen for the cluster is the keeper chosen for every other
\* listing order of the same members.
C6_KeeperIndependentOfOrder ==
    (mounted /\ gestures = 0) =>
        \A p \in Permutations(DOMAIN images) :
            selectDefaultKeeper(Reorder(images, p)) = keeperId

\* C7: swapKeeper makes queue[index] the keeper and puts the previous keeper
\* at index, every other entry staying where it was.
C7_SwapIsRePivot ==
    [][ swapKeeper =>
            /\ keeperId' = rightId
            /\ queue' = [queue EXCEPT ![index + 1] = keeperId] ]_vars

\* C8: skip moves queue[index] to the back and leaves length, members, keeper
\* and processed alone; with a single entry it ends the session instead.
C8_SkipMovesToBack ==
    [][ \A i \in DOMAIN timers : (mounted /\ SkipTimer(i)) =>
            IF Len(queue) = 1
            THEN isClosing' /\ queue' = queue
            ELSE /\ queue' = Append(RemoveAt(queue, index), rightId)
                 /\ UNCHANGED <<keeperId, processed, isClosing>> ]_vars

\* the session has reached Done: nothing is left to compare
SessionDone == opened /\ queue = <<>>

\* C9: once the session is Done its state no longer changes and onDone is
\* called exactly once.
C9_DoneIsFinalNotifiedOnce ==
    /\ [](onDoneCount <= 1)
    /\ [][SessionDone => UNCHANGED <<keeperId, queue, index, processed>>]_vars

Recorded(idx) == ephemeralRemoved[idx].merged \cup ephemeralRemoved[idx].ignored

\* C11: an image is recorded in ephemeralRemoved as merged only if a merge of
\* it succeeded and as ignored only if an ignore of it succeeded; an image
\* whose call failed, and which no successful call removed, is still shown
\* in its cluster on the page (as long as the cluster has another member left
\* to show it with).
C11_RemovalsFollowOutcome ==
    /\ \A idx \in ClusterIdxs :
            /\ ephemeralRemoved[idx].merged \subseteq gone
            /\ \A d \in ephemeralRemoved[idx].ignored :
                    \E k \in Ids : Pair(k, d) \in ledger
    /\ \A i \in DOMAIN timers : \A idx \in ClusterIdxs :
            ( /\ timers[i].kind \in {"merge", "ignore"}
              /\ timers[i].res = "fail"
              /\ idx + 1 \in DOMAIN clusters
              /\ timers[i].rid \in Range(clusters[idx + 1]) \ Recorded(idx)
              /\ Cardinality(Range(clusters[idx + 1]) \ Recorded(idx)) > 1 )
                => timers[i].rid \in ShownImages(idx)

\* some cluster of the list cs contains all of S
Together(cs, S) == \E k \in DOMAIN cs : S \subseteq Range(cs[k])

\* near, not ignored (whatever the buckets)
Similar(a, b) == a # b /\ Near(a, b) /\ ~isIgnored(a, b)

SoleConnection(a, b, c) ==
    /\ a # c /\ isIgnored(a, b)
    /\ EdgeIgnoringLedger(a, b) /\ Edge(b, c)
    /\ \A d \in Hashed \ {a, b} : ~Edge(a, d)

\* C13: when the ignored edge A-B was the only connection between {A} and
\* {B, C}, the query returns B and C together and A with neither of them.
C13_IgnoredEdgeSplits ==
    [][ getDuplicates =>
          \A a, b, c \in Hashed :
              SoleConnection(a, b, c) =>
                  /\ Together(clusters', {b, c})
                  /\ ~Together(clusters', {a, b})
                  /\ ~Together(clusters', {a, c}) ]_vars

\* the cluster {A, B, C} was reviewed, A-B ignored, and the next query
\* returned the cluster without A
C13_Witness ==
    /\ clusters = DuplicateClusters
    /\ \E a, b, c \in Hashed :
            /\ SoleConnection(a, b, c)
            /\ a \in ephemeralRemoved[0].ignored \/ b \in ephemeralRemoved[0].ignored
            /\ Together(clusters, {b, c}) /\ ~Together(clusters, {a})

C15_NoSingleMemberCluster ==
    /\ \A k \in DOMAIN clusters : Len(clusters[k]) >= 2
    /\ \A idx \in ClusterIdxs :
            Rendered(idx) =>
                Cardinality(Range(clusters[idx + 1]) \ Recorded(idx)) >= 2

\* a returned cluster with one member left to show is hidden
C15_Witness ==
    \E idx \in ClusterIdxs :
        /\ idx + 1 \in DOMAIN clusters
        /\ Cardinality(Range(clusters[idx + 1]) \ Recorded(idx)) = 1
        /\ ~Rendered(idx)

\* the moves of the job state machine
Chain ==
    {<<"none", "pending">>, <<"pending", "running">>, <<"running", "completed">>,
     <<"running", "failed">>, <<"running", "cancelled">>}

\* every change of a job's status is one of the moves in M
MovesWithin(M) ==
    \A j \in JobIds : jobs'[j] # jobs[j] => <<jobs[j], jobs'[j]>> \in M

\* force-kill fails a running job; force-kill and cancel leave a terminal
\* job as it is
Supervision ==
    \A j \in JobIds :
        /\ (forceKillJob(j) /\ jobs[j] = "running") => jobs'[j] = "failed"
        /\ (jobs[j] \in Terminal /\ (forceKillJob(j) \/ cancelJob(j) \/ forceKillStalled))
                => jobs'[j] = jobs[j]

\* C16: a job's status changes only along pending -> running -> {completed,
\* failed, cancelled}; force-kill turns a running job into failed, and
\* force-kill or cancel of a terminal job changes nothing.
C16_JobStatusChain ==
    [][ MovesWithin(Chain) /\ Supervision ]_vars

\* C16 as amended: the same, with the move pending -> cancelled made by
\* Cancel, which the Jobs page offers for pending jobs only.
C16_JobStatusChainOrCancelPending ==
    [][ /\ MovesWithin(Chain \cup {<<"pending", "cancelled">>})
        /\ Supervision
        /\ \A j \in JobIds :
              (jobs[j] = "pending" /\ jobs'[j] = "cancelled") => cancelJob(j) ]_vars

\* a job listed as running has ended and is then force-killed, another job
\* was cancelled while pending
C16_Witness ==
    \E j, k \in JobIds :
        /\ jobsData[j] = "running" /\ jobs[j] = "completed"
        /\ jobs[k] = "cancelled"

\* C17: the session starts with the default keeper of the cluster (largest
\* area, then most recent, then highest id) as keeper, every other member in
\* the returned order as queue, index 0, processed 0 and total = size - 1.
C17_SessionStart ==
    (mounted /\ gestures = 0 /\ timers = <<>>) =>
        /\ keeperId = PolicyKeeper(images)
        /\ queue = FilterOut(IdsOf(images), keeperId)
        /\ index = 0 /\ processed = 0
        /\ total = Len(images) - 1

\* the removal that follows a successful call of the given kind runs
SuccessRemoval(i, kind) ==
    /\ mounted /\ timers[i].kind = kind /\ timers[i].res = "ok"
    /\ RemovalTimer(i)

\* C18: the removal after a successful merge takes exactly queue[index] out
\* of the queue; an empty queue ends the session, otherwise index becomes
\* min(index, length - 1); while reviewing 0 <= index < queue.length.
C18_MergeRemovesCurrent ==
    /\ []((mounted /\ ~isClosing) => (0 <= index /\ index < Len(queue)))
    /\ [][ \A i \in DOMAIN timers :
              SuccessRemoval(i, "merge") =>
                  /\ rightId = timers[i].rid
                  /\ queue' = RemoveAt(queue, index)
                  /\ IF queue' = <<>> THEN isClosing'
                     ELSE index' = Min(index, Len(queue') - 1) ]_vars

\* C19: a successful ignore records the pair (keeper, queue[index]) of the
\* time of the request; the entry then removed is that candidate, and the
\* session goes on unless the queue is empty.
C19_IgnoreRecordsAndRemoves ==
    [][ /\ \A i \in DOMAIN calls :
              (calls[i].kind = "ignore" /\ MutationSettled(i, "ok")) =>
                  ledger' = ledger \cup {Pair(calls[i].keeper, calls[i].dup)}
        /\ \A i \in DOMAIN timers :
              SuccessRemoval(i, "ignore") =>
                  /\ rightId = timers[i].rid
                  /\ queue' = RemoveAt(queue, index)
                  /\ IF queue' = <<>> THEN isClosing' ELSE UNCHANGED isClosing ]_vars

\* C20: a successful Ignore Remaining records the pair (keeper, x) for every
\* x in the queue and for no other image, empties the queue and ends the
\* session; it is not started with an empty queue.
C20_IgnoreRemainingRecordsQueue ==
    [][ /\ \A i \in DOMAIN calls :
              (mounted /\ calls[i].kind = "ignoreAll" /\ IgnoreRemainingSettled(i, "ok")) =>
                  /\ ledger' = ledger \cup {Pair(keeperId, queue[k]) : k \in DOMAIN queue}
                  /\ queue' = <<>> /\ isClosing'
        /\ ignoreRemaining => queue # <<>> ]_vars

\* the images this session has merged away
MergedAway == {p.duplicateId : p \in {r \in reported : r.action = "merged"}}

NoRepeat(q) == \A a, b \in DOMAIN q : a # b => q[a] # q[b]

\* C22: in every state of a review session the keeper is not in the queue and
\* no identifier is in the queue twice.
C22_KeeperOutsideQueue ==
    mounted => (keeperId \notin Range(queue) /\ NoRepeat(queue))

\* C23: the keeper of a review session is never an image the session has
\* merged away.
C23_KeeperNotMergedAway ==
    mounted => keeperId \notin MergedAway

\* the members that leave {keeper} \cup queue in this step
Leaving == (Range(queue) \cup {keeperId}) \ (Range(queue') \cup {keeperId'})

\* C24: an image leaves {keeper} \cup queue only in the removal that follows
\* the merge / ignore request issued for it, or when Ignore Remaining empties
\* the queue it was issued for.
C24_NoSilentDrop ==
    [][ mounted =>
          /\ \A i \in DOMAIN timers :
                RemovalTimer(i) => Leaving \subseteq {timers[i].rid}
          /\ \A i \in DOMAIN calls : \A res \in {"ok", "fail", "notfound"} :
                IgnoreRemainingSettled(i, res) => Leaving \subseteq Range(calls[i].q)
          /\ (Open \/ close \/ doMerge \/ doIgnore \/ ignoreRemaining \/ skip
                \/ swapKeeper \/ ExternalDelete) => Leaving = {}
          /\ \A i \in DOMAIN calls : \A res \in {"ok", "fail", "notfound"} :
                MutationSettled(i, res) => Leaving = {}
          /\ \A i \in DOMAIN timers :
                (SkipTimer(i) \/ CloseTimerFires(i)) => Leaving = {} ]_vars

\* C25: throughout a review session processed + queue.length = total, so the
\* progress shown, processed + 1 of total, never exceeds total while an item
\* is under review.
C25_ProgressAccounting ==
    mounted =>
        /\ processed + Len(queue) = total
        /\ rightId # 0 => processed + 1 <= total

\* C26: swapKeeper applied to the state swapKeeper has just produced gives
\* back the keeper and the queue it started from.
C26_SwapTwiceRestores ==
    [][ swapKeeper =>
          /\ RightOf(queue', index') = keeperId
          /\ swappedQueue(keeperId', queue', index') = queue ]_vars

\* the groups Merge All works on
Eligible == {k \in DOMAIN exactGroups : Len(exactGroups[k].items) > 1}

\* C21: Merge All asks, for every group with more than one item and for no
\* other group, to keep the item of highest resolution (ties: most recent
\* created_at, then highest id) and to remove all other items of the group;
\* the keeper is never among the ids to remove.
C21_MergeAllKeepsBest ==
    [][ MergeAll =>
          /\ Len(exactRequests') = Cardinality(Eligible)
          /\ \A k \in Eligible : \E r \in Range(exactRequests') :
                /\ r.key = exactGroups[k].key
                /\ r.keepId = PolicyKeeper(exactGroups[k].items)
                /\ r.removeIds = Range(IdsOf(exactGroups[k].items)) \ {r.keepId}
          /\ \A r \in Range(exactRequests') : r.keepId \notin r.removeIds ]_vars

\* Merge All has sent the request for a group of three in which the item
\* kept ties with another one in resolution and in created_at
C21_Witness ==
    \E k \in DOMAIN exactGroups : \E r \in Range(exactRequests) :
        /\ r.by = "all" /\ r.key = exactGroups[k].key
        /\ Len(exactGroups[k].items) = 3
        /\ Cardinality(r.removeIds) = 2
        /\ \E i, j \in DOMAIN exactGroups[k].items :
              /\ exactGroups[k].items[i].id = r.keepId /\ i # j
              /\ Area(exactGroups[k].items[i]) = Area(exactGroups[k].items[j])
              /\ exactGroups[k].items[i].createdAt = exactGroups[k].items[j].createdAt

\* every image recorded as merged or ignored during this visit
RecordedInVisit == UNION {Recorded(idx) : idx \in ClusterIdxs}

\* C27: every cluster of the list that has at least two members neither
\* merged nor ignored during this visit is displayed with all those members.
C27_RemovalsFollowCluster ==
    \A idx \in ClusterIdxs :
        ( /\ idx + 1 \in DOMAIN clusters
          /\ Cardinality(Range(clusters[idx + 1]) \ RecordedInVisit) >= 2 )
            => /\ Rendered(idx)
               /\ (Range(clusters[idx + 1]) \ RecordedInVisit) \subseteq ShownImages(idx)

\* C28: Merge Selected never sends a request whose keeper id is among the
\* ids to remove.
C28_KeeperNotRemoved ==
    [][ \A k \in DOMAIN exactGroups :
            MergeSelected(exactGroups[k]) =>
                \A r \in Range(exactRequests') : r.keepId \notin r.removeIds ]_vars

\* C29: whenever selection mode is off the set of selected images is empty.
C29_SelectionEmptyWhenOff ==
    ~bulkMode => selectedImages = {}

====
